---- MODULE Spec2Model ----
(***************************************************************************)
(* Conversation embeddings: the store-conversation-embedding handler, the  *)
(* search-conversation-embeddings handler, the match_conversation_messages *)
(* SQL function and the two tables they work on.                           *)
(*                                                                         *)
(* Similarities and thresholds are kept in hundredths (0.7 is 70).         *)
(* Texts are sequences of one-character strings.                           *)
(***************************************************************************)
EXTENDS Integers, Sequences, FiniteSets, TLC

VARIABLES
  conversation_id_unique, \* whether conversation_history has a unique key on
                          \* conversation_id: the migration declares none (FALSE);
                          \* docs.md calls the column unique and the upsert names
                          \* it as its conflict target (TRUE)
  conversation_history,   \* table rows, in heap order
  conversation_message,   \* table rows, in heap order
  nextConversationId,     \* bigserial of conversation_history.id
  nextMessageId,          \* bigserial of conversation_message.id
  now,                    \* the database clock
  ingest,                 \* the store-conversation-embedding requests in flight
  ingestCalls,            \* store requests started so far
  search,                 \* the search-conversation-embeddings request in flight
  searchCalls,            \* search requests started so far
  deletes,                \* conversations deleted from the history view so far
  cw                      \* context-window computation on its own (see SpecWindow)

vars == <<conversation_id_unique, conversation_history, conversation_message,
          nextConversationId, nextMessageId, now, ingest, ingestCalls, search,
          searchCalls, deletes, cw>>

dbvars == <<conversation_history, conversation_message, nextConversationId,
            nextMessageId, now>>

----------------------------------------------------------------------------
(* Bounds *)

MaxIngestCalls == 2
\* store-conversation-embedding requests that can be in flight together
Handlers == {1, 2}
MaxSearchCalls == 1
MaxDeletes == 1
\* longest message sequence handed to the context-window computation
MaxWindowLen == 10

----------------------------------------------------------------------------
(* Values *)

Undefined == "undefined"
Null == "null"

Max(a, b) == IF a >= b THEN a ELSE b
Min(a, b) == IF a <= b THEN a ELSE b

Range(s) == {s[i] : i \in 1..Len(s)}

Refs == {"r1", "r2"}

\* A JSON body is a record; a field that was not sent is not in its domain.
Has(body, f) == f \in DOMAIN body

\* destructuring with a default: const { f = d } = body
Field(body, f, d) == IF Has(body, f) THEN body[f] ELSE d

\* const { f } = body, for a string field: undefined when not sent
Str(body, f) == Field(body, f, Undefined)

\* !v for a string-or-undefined value
FalsyStr(v) == v = Undefined \/ v = ""

\* a check that lets every text pass
FalsyTextNever(t) == FALSE

\* !v for a text; a text that was not sent is written as the empty text
FalsyText(t) == t = <<>>

----------------------------------------------------------------------------
(* Text and the embedding provider *)

Whitespace == {" ", "\n"}

\* the content sent as it is
KeepNewlines(s) == s

\* String.prototype.replace(/\n/g, ' ')
ReplaceNewlines(s) == [i \in 1..Len(s) |-> IF s[i] = "\n" THEN " " ELSE s[i]]

RECURSIVE TrimLeft(_)
TrimLeft(s) ==
  IF s # <<>> /\ Head(s) \in Whitespace THEN TrimLeft(Tail(s)) ELSE s

RECURSIVE TrimRight(_)
TrimRight(s) ==
  IF s # <<>> /\ s[Len(s)] \in Whitespace THEN TrimRight(SubSeq(s, 1, Len(s) - 1)) ELSE s

\* String.prototype.trim()
Trim(s) == TrimRight(TrimLeft(s))

\* text-embedding-ada-002, reduced to a vector of one component, a direction:
\* the number of "b" characters, at most 5.  The same text always gets the
\* same vector.
Embed(text) == <<Min(5, Cardinality({i \in 1..Len(text) : text[i] = "b"}))>>

\* a NULL embedding column
NullVector == <<>>

\* 100 * cosine of the angle between two directions that are d steps apart
Cos100 == <<100, 92, 81, 70, 65, 40>>

\* pgvector's <=> operator: cosine distance, in hundredths
CosineDistance(a, b) ==
  100 - Cos100[(IF a[1] >= b[1] THEN a[1] - b[1] ELSE b[1] - a[1]) + 1]

----------------------------------------------------------------------------
(* Tables *)

ConversationRow(id, ref, user, title, summary, metadata, at) ==
  [id |-> id, user_id |-> user, conversation_id |-> ref, created_at |-> at,
   title |-> title, summary |-> summary, metadata |-> metadata]

MessageRow(id, conv, role, content, at, embedding) ==
  [id |-> id, conversation_id |-> conv, role |-> role, content |-> content,
   created_at |-> at, embedding |-> embedding]

\* positions of the conversation_history rows whose column col equals v
RowsWhere(table, col, v) == {i \in 1..Len(table) : table[i][col] = v}

\* a column left out of the JSON body (undefined) becomes NULL on insert
OrNull(v) == IF v = Undefined THEN Null ELSE v

\* ... and keeps its old value on conflict
OrOld(v, old) == IF v = Undefined THEN old ELSE v

\* no row: a null bigint
NoRow == 0

\* the rows of a table that satisfy keep, in heap order
RECURSIVE FilterRows(_, _)
FilterRows(table, keep) ==
  IF table = <<>> THEN <<>>
  ELSE IF Head(table).id \in keep
       THEN <<Head(table)>> \o FilterRows(Tail(table), keep)
       ELSE FilterRows(Tail(table), keep)

Ids(table) == {table[i].id : i \in 1..Len(table)}

----------------------------------------------------------------------------
(* Requests to store-conversation-embedding *)

Ma == [role |-> "user", content |-> <<"a">>]
Mb == [role |-> "assistant", content |-> <<"b", "\n", "b">>]
Mempty == [role |-> "user", content |-> <<>>]
Mnorole == [content |-> <<"a">>]

P1 == [title |-> "t1", summary |-> "s1", metadata |-> "m1"]
P2 == [title |-> "t2", summary |-> "s2", metadata |-> "m2"]
P3 == [title |-> "t3"]

Body(ref, messages, payload) ==
  [conversationId |-> ref, messages |-> messages] @@ payload

IngestBodies ==
  {Body("r1", <<Ma, Mb, Ma>>, P1), Body("r1", <<Ma, Mb>>, P2),
   Body("r1", <<Ma>>, P3), Body("r1", <<Mempty, Mb, Mnorole>>, P1),
   Body("r2", <<Ma>>, P1), Body("r2", <<Mempty>>, P2),
   [messages |-> <<Ma>>], [conversationId |-> "r1", messages |-> <<>>]}

IngestRequests ==
  {[method |-> "GET"], [method |-> "POST"]}
  \cup {[method |-> "POST", body |-> b] : b \in IngestBodies}

GenericError == "There was an error processing your request"

NoResponse == [status |-> 0]

IngestIdle ==
  [pc |-> "idle", req |-> [method |-> "GET"], conversation |-> NoRow, idx |-> 0,
   results |-> <<>>, input |-> <<>>, embedding |-> NullVector,
   response |-> NoResponse, thrown |-> "", faults |-> 0,
   embedRequests |-> <<>>, insertRequests |-> <<>>]

\* a catch block that answers with the message of whatever was thrown
CatchWithDetail(kind, message) ==
  [status |-> IF kind = "UserError" THEN 400 ELSE 500, error |-> message]

\* the catch block: a UserError answers 400 with its message, anything else
\* answers 500 with the generic message
Catch(kind, message) ==
  IF kind = "UserError"
  THEN [status |-> 400, error |-> message]
  ELSE [status |-> 500, error |-> GenericError]

Throw(rec, kind, message) ==
  [rec EXCEPT !.pc = "done", !.thrown = kind, !.response = Catch(kind, message)]

\* if (!message.role) continue: a message without content is not skipped
SkippedWithoutRole(message) == FalsyStr(Str(message, "role"))

\* if (!message.content || !message.role) continue
Skipped(message) == FalsyText(message.content) \/ FalsyStr(Str(message, "role"))

\* the position of the first message at or after i that is not skipped
RECURSIVE NextKept(_, _)
NextKept(messages, i) ==
  IF i > Len(messages) THEN i
  ELSE IF Skipped(messages[i]) THEN NextKept(messages, i + 1)
  ELSE i

\* the loop with a response that counts the messages received
AdvanceCountsInput(rec, from) ==
  LET messages == rec.req.body.messages
      i == NextKept(messages, from)
  IN IF i > Len(messages)
     THEN [rec EXCEPT !.pc = "done", !.idx = i,
             !.response = [status |-> 200, success |-> TRUE,
                           conversationId |-> rec.req.body.conversationId,
                           messages |-> Len(messages)]]
     ELSE [rec EXCEPT !.pc = "embed", !.idx = i]

\* the for loop up to its next await, or the success response after it
Advance(rec, from) ==
  LET messages == rec.req.body.messages
      i == NextKept(messages, from)
  IN IF i > Len(messages)
     THEN [rec EXCEPT !.pc = "done", !.idx = i,
             !.response = [status |-> 200, success |-> TRUE,
                           conversationId |-> rec.req.body.conversationId,
                           messages |-> Len(rec.results)]]
     ELSE [rec EXCEPT !.pc = "embed", !.idx = i]

\* console.error(...) and on with the next message, in place of throw err
LoopCatchContinues(rec, kind, message) == Advance(rec, rec.idx + 1)

\* the catch block inside the loop: console.error(...); throw err
LoopCatch(rec, kind, message) == Throw(rec, kind, message)

\* a catch block that deletes the rows the request has inserted
RolledBack(table, rec) == FilterRows(table, Ids(table) \ Range(rec.results))

\* conversation_message after a failure in the loop: the catch blocks log and
\* answer, they send nothing to storage, and no transaction spans the inserts
AfterFailure(table, rec) == table

\* INSERT ... ON CONFLICT (conversation_id) DO NOTHING: a row that exists
\* keeps its columns
UpsertIgnoresDuplicates(table, body, id, at) ==
  IF RowsWhere(table, "conversation_id", body.conversationId) # {}
  THEN table
  ELSE Append(table,
         ConversationRow(id, body.conversationId, Null,
                         OrNull(Str(body, "title")), OrNull(Str(body, "summary")),
                         OrNull(Str(body, "metadata")), at))

\* INSERT ... ON CONFLICT (conversation_id) DO UPDATE, on a table that has the
\* unique key: the columns sent replace the old ones, a new row gets the next id
Upsert(table, body, id, at) ==
  LET hit == RowsWhere(table, "conversation_id", body.conversationId)
  IN IF hit # {}
     THEN LET i == CHOOSE j \in hit : TRUE
          IN [table EXCEPT ![i] =
                [@ EXCEPT !.title = OrOld(Str(body, "title"), @),
                          !.summary = OrOld(Str(body, "summary"), @),
                          !.metadata = OrOld(Str(body, "metadata"), @)]]
     ELSE Append(table,
            ConversationRow(id, body.conversationId, Null,
                            OrNull(Str(body, "title")), OrNull(Str(body, "summary")),
                            OrNull(Str(body, "metadata")), at))

----------------------------------------------------------------------------
(* store-conversation-embedding: handler *)

\* From the request to the answer of the conversation upsert (the first await
\* on a collaborator), and on to the first embedding request or the response.
IngestBegin(c) ==
  /\ ingest[c].pc = "idle"
  /\ \A d \in Handlers : d < c => ingest[d].pc # "idle"
  /\ ingestCalls < MaxIngestCalls
  /\ ingestCalls' = ingestCalls + 1
  /\ \E req \in IngestRequests, outcome \in {"ok", "error"} :
       LET rec == [ingest[c] EXCEPT !.req = req]
           body == req.body
       IN IF req.method # "POST"
          THEN /\ outcome = "ok"
               /\ ingest' = [ingest EXCEPT ![c] =
                    [rec EXCEPT !.pc = "done",
                       !.response = [status |-> 405, error |-> "Method not allowed"]]]
               /\ UNCHANGED dbvars
          ELSE IF ~Has(req, "body")
          THEN /\ outcome = "ok"
               /\ ingest' = [ingest EXCEPT ![c] =
                    Throw(rec, "UserError", "Missing request data")]
               /\ UNCHANGED dbvars
          ELSE IF FalsyStr(Str(body, "conversationId"))
          THEN /\ outcome = "ok"
               /\ ingest' = [ingest EXCEPT ![c] =
                    Throw(rec, "UserError", "Missing conversationId in request data")]
               /\ UNCHANGED dbvars
          ELSE IF Len(body.messages) = 0
          THEN /\ outcome = "ok"
               /\ ingest' = [ingest EXCEPT ![c] =
                    Throw(rec, "UserError", "Missing or invalid messages in request data")]
               /\ UNCHANGED dbvars
          ELSE IF outcome = "error"
          THEN \* the storage collaborator fails
               /\ ingest' = [ingest EXCEPT ![c] =
                    Throw([rec EXCEPT !.faults = 1], "PostgrestError", "")]
               /\ UNCHANGED dbvars
          ELSE IF ~conversation_id_unique
          THEN \* no unique constraint matches the ON CONFLICT specification
               /\ ingest' = [ingest EXCEPT ![c] = Throw(rec, "PostgrestError", "")]
               /\ UNCHANGED dbvars
          ELSE LET table == Upsert(conversation_history, body, nextConversationId, now)
                   i == CHOOSE j \in RowsWhere(table, "conversation_id",
                                               body.conversationId) : TRUE
               IN /\ conversation_history' = table
                  /\ nextConversationId' =
                       IF Len(table) > Len(conversation_history)
                       THEN nextConversationId + 1 ELSE nextConversationId
                  /\ ingest' = [ingest EXCEPT ![c] =
                       Advance([rec EXCEPT !.conversation = table[i].id], 1)]
                  /\ UNCHANGED <<conversation_message, nextMessageId, now>>
  /\ UNCHANGED <<conversation_id_unique, search, searchCalls, deletes, cw>>

\* openai.createEmbedding for the current message, up to the insert request
IngestEmbed(c) ==
  /\ ingest[c].pc = "embed"
  /\ \E outcome \in {"ok", "notOk", "badFormat", "noEmbedding"} :
       LET rec == ingest[c]
           message == rec.req.body.messages[rec.idx]
           input == ReplaceNewlines(message.content)
           sent == [rec EXCEPT !.input = input,
                               !.embedRequests = Append(@, rec.idx)]
       IN /\ conversation_message' =
               IF outcome = "ok" THEN conversation_message
               ELSE AfterFailure(conversation_message, sent)
          /\ ingest' = [ingest EXCEPT ![c] =
            CASE outcome = "ok" ->
                   [sent EXCEPT !.pc = "insert", !.embedding = Embed(input)]
              [] outcome = "notOk" ->
                   LoopCatch([sent EXCEPT !.faults = 1], "ApplicationError",
                             "Failed to generate embedding")
              [] outcome = "badFormat" ->
                   LoopCatch([sent EXCEPT !.faults = 1], "ApplicationError",
                             "Invalid embedding response format")
              [] outcome = "noEmbedding" ->
                   LoopCatch([sent EXCEPT !.faults = 1], "ApplicationError",
                             "Missing embedding in response data")]
  /\ now' = now + 1
  /\ UNCHANGED <<conversation_id_unique, conversation_history, nextConversationId,
                 nextMessageId, ingestCalls, search, searchCalls, deletes, cw>>

\* the insert into conversation_message, and on to the next await or the response
\* an insert that overwrites a stored message of the same conversation, role
\* and content instead of adding a row
InsertOrReplaceMessage(table, row) ==
  LET same == {i \in 1..Len(table) :
                 /\ table[i].conversation_id = row.conversation_id
                 /\ table[i].role = row.role
                 /\ table[i].content = row.content}
  IN IF same = {}
     THEN Append(table, row)
     ELSE [i \in 1..Len(table) |-> IF i \in same THEN row ELSE table[i]]

\* supabase.from("conversation_message").insert({...}): one new row, no
\* ON CONFLICT clause
InsertMessage(table, row) == Append(table, row)

IngestInsert(c) ==
  /\ ingest[c].pc = "insert"
  /\ \E outcome \in {"ok", "error"} :
       LET rec == [ingest[c] EXCEPT !.insertRequests = Append(@, ingest[c].idx)]
           message == rec.req.body.messages[rec.idx]
           parent == RowsWhere(conversation_history, "id", rec.conversation)
       IN IF outcome = "error" \/ parent = {}
          THEN \* the storage collaborator fails, or the foreign key is violated
               /\ ingest' = [ingest EXCEPT ![c] =
                    LoopCatch([rec EXCEPT !.faults = IF outcome = "error" THEN 1 ELSE 0],
                              "PostgrestError", "")]
               /\ conversation_message' = AfterFailure(conversation_message, rec)
               /\ UNCHANGED nextMessageId
          ELSE /\ conversation_message' = InsertMessage(conversation_message,
                    MessageRow(nextMessageId, rec.conversation, message.role,
                               message.content, now, rec.embedding))
               /\ nextMessageId' = nextMessageId + 1
               /\ ingest' = [ingest EXCEPT ![c] =
                    Advance([rec EXCEPT !.results = Append(@, nextMessageId)],
                            rec.idx + 1)]
  /\ UNCHANGED <<conversation_id_unique, conversation_history, nextConversationId,
                 now, ingestCalls, search, searchCalls, deletes, cw>>

\* the response has been sent: the request is over
IngestReturn(c) ==
  /\ ingest[c].pc = "done"
  /\ ingest' = [ingest EXCEPT ![c] = IngestIdle]
  /\ UNCHANGED <<dbvars, conversation_id_unique, ingestCalls, search, searchCalls,
                 deletes, cw>>

----------------------------------------------------------------------------
(* match_conversation_messages *)

\* 1 - (embedding <=> query_embedding)
Similarity(embedding, query_embedding) == 100 - CosineDistance(embedding, query_embedding)

\* the WHERE clause with >= in place of >
QualifiesAtThreshold(row, query_embedding, match_threshold, filter_conversation_id) ==
  /\ row.embedding # NullVector
  /\ Similarity(row.embedding, query_embedding) >= match_threshold
  /\ (filter_conversation_id = NoRow \/ row.conversation_id = filter_conversation_id)

\* the WHERE clause without the condition on filter_conversation_id
QualifiesInAnyConversation(row, query_embedding, match_threshold, filter_conversation_id) ==
  /\ row.embedding # NullVector
  /\ Similarity(row.embedding, query_embedding) > match_threshold

\* the WHERE clause
Qualifies(row, query_embedding, match_threshold, filter_conversation_id) ==
  /\ row.embedding # NullVector
  /\ Similarity(row.embedding, query_embedding) > match_threshold
  /\ (filter_conversation_id = NoRow \/ row.conversation_id = filter_conversation_id)

\* the SELECT list
MatchOf(row, query_embedding) ==
  [id |-> row.id, conversation_id |-> row.conversation_id, role |-> row.role,
   content |-> row.content, created_at |-> row.created_at,
   similarity |-> Similarity(row.embedding, query_embedding)]

\* ORDER BY similarity DESC: every order of the rows in which similarity never
\* increases; rows of equal similarity come in an order the query does not fix
RECURSIVE OrderBySimilarityDesc(_)
OrderBySimilarityDesc(rows) ==
  IF rows = {} THEN {<<>>}
  ELSE UNION {{<<m>> \o rest : rest \in OrderBySimilarityDesc(rows \ {m})} :
                m \in {x \in rows : \A y \in rows : x.similarity >= y.similarity}}

\* LIMIT match_count + 1
LimitOneMore(rows, match_count) == SubSeq(rows, 1, Min(match_count + 1, Len(rows)))

\* LIMIT match_count
Limit(rows, match_count) == SubSeq(rows, 1, Min(match_count, Len(rows)))

\* the function without "embedding IS NOT NULL": a row without an embedding
\* qualifies, with coalesce(similarity, 0)
match_messages_without_embedding(query_embedding, match_threshold, match_count, filter_conversation_id) ==
  LET rows == {MatchOf(r, query_embedding) :
                 r \in {x \in Range(conversation_message) :
                          Qualifies(x, query_embedding, match_threshold,
                                    filter_conversation_id)}}
              \cup
              {[id |-> r.id, conversation_id |-> r.conversation_id, role |-> r.role,
                content |-> r.content, created_at |-> r.created_at, similarity |-> 0] :
                 r \in {x \in Range(conversation_message) :
                          /\ x.embedding = NullVector
                          /\ (filter_conversation_id = NoRow
                                \/ x.conversation_id = filter_conversation_id)}}
  IN {Limit(ordered, match_count) : ordered \in OrderBySimilarityDesc(rows)}

\* the results the function can return
match_conversation_messages(query_embedding, match_threshold, match_count, filter_conversation_id) ==
  LET rows == {MatchOf(r, query_embedding) :
                 r \in {x \in Range(conversation_message) :
                          Qualifies(x, query_embedding, match_threshold,
                                    filter_conversation_id)}}
  IN {Limit(ordered, match_count) : ordered \in OrderBySimilarityDesc(rows)}

----------------------------------------------------------------------------
(* Requests to search-conversation-embeddings *)

\* " a\na " is sent as "a a"
Query == <<" ", "a", "\n", "a", " ">>

Q == [query |-> Query]

SearchBodies ==
  {Q @@ scope @@ context :
     scope \in {<<>>, [conversationId |-> "r1"], [conversationId |-> "r2"]},
     context \in {<<>>, [includeContext |-> TRUE]}}
  \cup {Q @@ [matchCount |-> n] : n \in {1, 0, -1}}
  \cup {Q @@ [matchCount |-> 1, includeContext |-> TRUE]}
  \cup {Q @@ [matchThreshold |-> t] : t \in {-50, 150}}
  \cup {Q @@ [matchThreshold |-> -50, matchCount |-> 10]}
  \cup {Q @@ [userId |-> "u1"] @@ count : count \in {<<>>, [matchCount |-> 1]}}
  \cup {Q @@ [includeContext |-> FALSE]}
  \cup {[query |-> <<>>], [includeContext |-> FALSE]}

SearchRequests ==
  {[method |-> "GET"], [method |-> "POST"]}
  \cup {[method |-> "POST", body |-> b] : b \in SearchBodies}

NoConversation == [conversation_id |-> "", title |-> "", created_at |-> 0]

SearchIdle ==
  [pc |-> "idle", req |-> [method |-> "GET"], embedding |-> NullVector,
   filterConversationId |-> NoRow, matchingMessages |-> <<>>,
   filteredMatches |-> <<>>, enrichedMatches |-> <<>>, k |-> 0,
   conversationData |-> NoConversation, response |-> NoResponse, thrown |-> "",
   dropped |-> <<>>, embeddingRequests |-> 0, storageRequests |-> 0,
   messageFetches |-> 0, fetchErrors |-> 0]

\* the destructuring of the request data, with its defaults
MatchCount(rec) == Field(rec.req.body, "matchCount", 5)
MatchThreshold(rec) == Field(rec.req.body, "matchThreshold", 70)
IncludeContext(rec) == Field(rec.req.body, "includeContext", FALSE)
ConversationId(rec) == Str(rec.req.body, "conversationId")
UserId(rec) == Str(rec.req.body, "userId")

Success(matches) == [status |-> 200, success |-> TRUE, matches |-> matches]

\* .order('created_at', { ascending: true }): every order of the rows in which
\* created_at never decreases
RECURSIVE OrderByCreatedAt(_)
OrderByCreatedAt(rows) ==
  IF rows = {} THEN {<<>>}
  ELSE UNION {{<<m>> \o rest : rest \in OrderByCreatedAt(rows \ {m})} :
                m \in {x \in rows : \A y \in rows : x.created_at <= y.created_at}}

\* .select('id, role, content, created_at')
ContextMessage(row) ==
  [id |-> row.id, role |-> row.role, content |-> row.content,
   created_at |-> row.created_at]

\* the query with "embedding IS NOT NULL" added to it
EmbeddedMessagesOf(conversation) ==
  {ContextMessage(r) :
     r \in {x \in Range(conversation_message) :
              x.conversation_id = conversation /\ x.embedding # NullVector}}

\* .from('conversation_message').eq('conversation_id', match.conversation_id):
\* every message of the conversation, with or without an embedding
MessagesOf(conversation) ==
  {ContextMessage(r) :
     r \in {x \in Range(conversation_message) : x.conversation_id = conversation}}

\* contextMessages.findIndex(msg => msg.id === id), counted from 0; -1 if absent
FindIndex(contextMessages, id) ==
  LET hits == {i \in 1..Len(contextMessages) : contextMessages[i].id = id}
  IN IF hits = {} THEN -1
     ELSE (CHOOSE i \in hits : \A j \in hits : i <= j) - 1

\* Array.prototype.slice(start, end) for 0 <= start
Slice(s, start, end) == SubSeq(s, start + 1, Min(end, Len(s)))

\* the neighbours of the match without the match itself
BuildContextNeighboursOnly(contextMessages, id) ==
  LET matchIndex == FindIndex(contextMessages, id)
      startIndex == Max(0, matchIndex - 2)
      endIndex == Min(Len(contextMessages) - 1, matchIndex + 2)
  IN IF matchIndex = -1 THEN <<>>
     ELSE Slice(contextMessages, startIndex, matchIndex)
            \o Slice(contextMessages, matchIndex + 1, endIndex + 1)

\* the window with slice(startIndex, endIndex): the last message is lost
BuildContextExclusiveEnd(contextMessages, id) ==
  LET matchIndex == FindIndex(contextMessages, id)
      startIndex == Max(0, matchIndex - 2)
      endIndex == Min(Len(contextMessages) - 1, matchIndex + 2)
  IN IF matchIndex = -1 THEN <<>>
     ELSE Slice(contextMessages, startIndex, endIndex)

\* the messages around the match: 2 before and 2 after
\* (nothing when the match is not among them)
BuildContext(contextMessages, id) ==
  LET matchIndex == FindIndex(contextMessages, id)
      startIndex == Max(0, matchIndex - 2)
      endIndex == Min(Len(contextMessages) - 1, matchIndex + 2)
  IN IF matchIndex = -1 THEN <<>>
     ELSE Slice(contextMessages, startIndex, endIndex + 1)

----------------------------------------------------------------------------
(* search-conversation-embeddings: handler *)

\* .maybeSingle(): no error when the query finds no row
MaybeSingleFails(hit) == FALSE

\* .single(): an error when the query finds no row
SingleFails(hit) == hit = {}

\* the for loop over filteredMatches up to its next await, or the response;
\* an error thrown in the loop has left it
EnrichNext(rec) ==
  IF rec.thrown # "" THEN rec
  ELSE IF rec.k > Len(rec.filteredMatches)
  THEN [rec EXCEPT !.pc = "done", !.response = Success(rec.enrichedMatches)]
  ELSE [rec EXCEPT !.pc = "conversation"]

\* the error of the fetch thrown in place of console.error(...); continue
DropMatchThrows(rec, match, fetch) == Throw(rec, "PostgrestError", "")

\* a failed fetch of the messages answered by the match without a context
DropMatchKeepsWithoutContext(rec, match, fetch) ==
  IF fetch = "context"
  THEN [rec EXCEPT !.k = @ + 1,
          !.enrichedMatches = Append(@,
             match @@ [conversation |-> rec.conversationData, context |-> <<>>])]
  ELSE [rec EXCEPT !.k = @ + 1,
          !.dropped = Append(@, [id |-> match.id, fetch |-> fetch])]

\* console.error(...); continue
DropMatch(rec, match, fetch) ==
  [rec EXCEPT !.k = @ + 1, !.dropped = Append(@, [id |-> match.id, fetch |-> fetch])]

\* enrichedMatches.unshift(...) in place of push: the match goes to the front
PushMatchFirst(rec, match, contextMessages) ==
  [rec EXCEPT !.k = @ + 1,
     !.enrichedMatches =
        <<match @@ [conversation |-> rec.conversationData,
                    context |-> BuildContext(contextMessages, match.id)]>> \o @]

\* an error thrown when the match is not among the messages fetched
PushMatchOrThrow(rec, match, contextMessages) ==
  IF FindIndex(contextMessages, match.id) = -1
  THEN Throw(rec, "ApplicationError", "Matched message not found")
  ELSE [rec EXCEPT !.k = @ + 1,
          !.enrichedMatches = Append(@,
             match @@ [conversation |-> rec.conversationData,
                       context |-> BuildContext(contextMessages, match.id)])]

\* the match with its conversation and its context: no context when the match
\* is not among the messages fetched
PushMatch(rec, match, contextMessages) ==
  [rec EXCEPT !.k = @ + 1,
     !.enrichedMatches = Append(@,
        match @@ [conversation |-> rec.conversationData,
                  context |-> BuildContext(contextMessages, match.id)])]

\* the enrichment entered for every request that has matches
AfterFilterAlwaysEnriches(rec) ==
  IF Len(rec.filteredMatches) > 0
  THEN EnrichNext([rec EXCEPT !.k = 1, !.enrichedMatches = <<>>])
  ELSE [rec EXCEPT !.pc = "done", !.response = Success(rec.filteredMatches)]

\* from the filtered matches to the first fetch of the enrichment, or the response
AfterFilter(rec) ==
  IF IncludeContext(rec) /\ Len(rec.filteredMatches) > 0
  THEN EnrichNext([rec EXCEPT !.k = 1, !.enrichedMatches = <<>>])
  ELSE [rec EXCEPT !.pc = "done", !.response = Success(rec.filteredMatches)]

\* From the request to the answer of the embedding provider.
SearchBegin ==
  /\ search.pc = "idle"
  /\ searchCalls < MaxSearchCalls
  /\ searchCalls' = searchCalls + 1
  /\ \E req \in SearchRequests, outcome \in {"ok", "notOk", "badFormat"} :
       LET rec == [search EXCEPT !.req = req]
           body == req.body
           query == Field(body, "query", <<>>)
           asked == [rec EXCEPT !.embeddingRequests = 1]
       IN search' =
            IF req.method # "POST"
            THEN [rec EXCEPT !.pc = "done",
                    !.response = [status |-> 405, error |-> "Method not allowed"]]
            ELSE IF ~Has(req, "body")
            THEN Throw(rec, "UserError", "Missing request data")
            ELSE IF FalsyText(query)
            THEN Throw(rec, "UserError", "Missing query in request data")
            ELSE CASE outcome = "ok" ->
                        [asked EXCEPT
                           !.embedding = Embed(ReplaceNewlines(Trim(query))),
                           !.pc = IF FalsyStr(ConversationId(rec))
                                  THEN "rpc" ELSE "scope"]
                   [] outcome = "notOk" ->
                        Throw(asked, "ApplicationError",
                              "Failed to create embedding for query")
                   [] outcome = "badFormat" ->
                        Throw(asked, "ApplicationError",
                              "Invalid embedding response format")
  /\ UNCHANGED <<dbvars, conversation_id_unique, ingest, ingestCalls, deletes, cw>>

\* the lookup of the conversation named by conversationId:
\* .eq('conversation_id', conversationId).limit(1).single()
SearchScope ==
  /\ search.pc = "scope"
  /\ \E outcome \in {"ok", "error"} :
       LET rec == [search EXCEPT !.storageRequests = @ + 1]
           hit == RowsWhere(conversation_history, "conversation_id",
                            ConversationId(rec))
       IN IF outcome = "error" \/ SingleFails(hit)
          THEN \* throw specificConversationError
               search' = Throw(rec, "PostgrestError", "")
          ELSE IF hit = {}
          THEN \* if (specificConversation) is false: the filter stays null
               search' = [rec EXCEPT !.pc = "rpc"]
          ELSE \E i \in hit :
                 search' = [rec EXCEPT !.pc = "rpc",
                              !.filterConversationId = conversation_history[i].id]
  /\ UNCHANGED <<dbvars, conversation_id_unique, ingest, ingestCalls, searchCalls,
                 deletes, cw>>

\* supabaseClient.rpc('match_conversation_messages', ...)
SearchRpc ==
  /\ search.pc = "rpc"
  /\ \E outcome \in {"ok", "error"} :
       LET rec == [search EXCEPT !.storageRequests = @ + 1]
       IN IF outcome = "error" \/ MatchCount(rec) < 0
          THEN \* the storage collaborator fails, or LIMIT is negative
               search' = Throw(rec, "ApplicationError",
                               "Failed to match conversation messages")
          ELSE \E matchingMessages \in
                    match_conversation_messages(rec.embedding, MatchThreshold(rec),
                                                MatchCount(rec),
                                                rec.filterConversationId) :
                 LET matched == [rec EXCEPT !.matchingMessages = matchingMessages,
                                            !.filteredMatches = matchingMessages]
                 IN search' = IF FalsyStr(UserId(rec))
                              THEN AfterFilter(matched)
                              ELSE [matched EXCEPT !.pc = "user"]
  /\ UNCHANGED <<dbvars, conversation_id_unique, ingest, ingestCalls, searchCalls,
                 deletes, cw>>

\* the user filter left out: every ranked match is kept
KeepMatchesOfAnyUser(matches, userConversationIds) == matches

\* matchingMessages.filter(match =>
\*   userConversationIds.includes(match.conversation_id))
FilterByUserConversations(matches, userConversationIds) ==
  SelectSeq(matches, LAMBDA match : match.conversation_id \in userConversationIds)

\* the conversations of the user, and the filter of the matches by them
SearchUser ==
  /\ search.pc = "user"
  /\ \E outcome \in {"ok", "error"} :
       LET rec == [search EXCEPT !.storageRequests = @ + 1]
           userConversationIds ==
             {conversation_history[i].id :
                i \in RowsWhere(conversation_history, "user_id", UserId(rec))}
       IN search' =
            IF outcome = "error"
            THEN Throw(rec, "PostgrestError", "")
            ELSE AfterFilter([rec EXCEPT !.filteredMatches =
                   FilterByUserConversations(rec.matchingMessages,
                                             userConversationIds)])
  /\ UNCHANGED <<dbvars, conversation_id_unique, ingest, ingestCalls, searchCalls,
                 deletes, cw>>

\* the conversation details of the current match:
\* .eq('id', match.conversation_id).limit(1).single()
SearchConversation ==
  /\ search.pc = "conversation"
  /\ \E outcome \in {"ok", "error"} :
       LET rec == [search EXCEPT !.storageRequests = @ + 1]
           match == rec.filteredMatches[rec.k]
           hit == RowsWhere(conversation_history, "id", match.conversation_id)
       IN IF outcome = "error" \/ SingleFails(hit)
          THEN search' = EnrichNext(DropMatch([rec EXCEPT !.fetchErrors = @ + 1],
                                              match, "conversation"))
          ELSE IF hit = {}
          THEN search' = [rec EXCEPT !.pc = "context",
                                     !.conversationData = NoConversation]
          ELSE \E i \in hit :
                 search' = [rec EXCEPT !.pc = "context",
                   !.conversationData =
                      [conversation_id |-> conversation_history[i].conversation_id,
                       title |-> conversation_history[i].title,
                       created_at |-> conversation_history[i].created_at]]
  /\ UNCHANGED <<dbvars, conversation_id_unique, ingest, ingestCalls, searchCalls,
                 deletes, cw>>

\* the messages of the conversation of the current match, and its context
SearchContext ==
  /\ search.pc = "context"
  /\ \E outcome \in {"ok", "error"} :
       LET rec == [search EXCEPT !.storageRequests = @ + 1, !.messageFetches = @ + 1]
           match == rec.filteredMatches[rec.k]
           rows == MessagesOf(match.conversation_id)
       IN IF outcome = "error"
          THEN search' = EnrichNext(DropMatch([rec EXCEPT !.fetchErrors = @ + 1],
                                              match, "context"))
          ELSE \E contextMessages \in OrderByCreatedAt(rows) :
                 search' = EnrichNext(PushMatch(rec, match, contextMessages))
  /\ UNCHANGED <<dbvars, conversation_id_unique, ingest, ingestCalls, searchCalls,
                 deletes, cw>>

\* a handler that removes the messages it has matched before it ends
SearchReturnConsumes ==
  /\ search.pc = "done"
  /\ search' = SearchIdle
  /\ conversation_message' =
       FilterRows(conversation_message,
                  Ids(conversation_message) \ Ids(search.matchingMessages))
  /\ UNCHANGED <<conversation_id_unique, conversation_history, nextConversationId,
                 nextMessageId, now, ingest, ingestCalls, searchCalls, deletes, cw>>

\* the response has been sent: the request is over
SearchReturn ==
  /\ search.pc = "done"
  /\ search' = SearchIdle
  /\ UNCHANGED <<dbvars, conversation_id_unique, ingest, ingestCalls, searchCalls,
                 deletes, cw>>

----------------------------------------------------------------------------
(* The history view *)

\* handleDelete: delete the conversation row; its messages go with it
\* (ON DELETE CASCADE)
Delete ==
  /\ deletes < MaxDeletes
  /\ \E id \in Ids(conversation_history) :
       /\ conversation_history' =
            FilterRows(conversation_history, Ids(conversation_history) \ {id})
       /\ conversation_message' =
            FilterRows(conversation_message,
                       {m.id : m \in {r \in Range(conversation_message) :
                                         r.conversation_id # id}})
  /\ deletes' = deletes + 1
  /\ UNCHANGED <<conversation_id_unique, nextConversationId, nextMessageId, now,
                 ingest, ingestCalls, search, searchCalls, cw>>

----------------------------------------------------------------------------
(* Initial states *)

Text(n, ch) == [i \in 1..n |-> ch]

\* a conversation stored earlier: five messages whose similarities to a query
\* without "b" are 70, 92, 40, 81 and 65, and one message stored without an
\* embedding
FixtureHistory ==
  <<ConversationRow(1, "r1", "u1", "t0", Null, Null, 0)>>

FixtureMessages ==
  <<MessageRow(1, 1, "user", Text(3, "b"), 1, Embed(Text(3, "b"))),
    MessageRow(2, 1, "assistant", Text(1, "b"), 2, Embed(Text(1, "b"))),
    MessageRow(3, 1, "system", <<"a">>, 3, NullVector),
    MessageRow(4, 1, "user", Text(5, "b"), 4, Embed(Text(5, "b"))),
    MessageRow(5, 1, "assistant", Text(2, "b"), 5, Embed(Text(2, "b"))),
    MessageRow(6, 1, "user", Text(4, "b"), 6, Embed(Text(4, "b")))>>

WindowIdle == [pc |-> "idle", contextMessages |-> <<>>, id |-> 0, context |-> <<>>]

\* the state after the migration, or with the fixture conversation stored
InitWith(seeds) ==
  /\ conversation_id_unique \in BOOLEAN
  /\ \E seed \in seeds :
       /\ conversation_history = seed.history
       /\ conversation_message = seed.messages
  /\ nextConversationId = Len(conversation_history) + 1
  /\ nextMessageId = Len(conversation_message) + 1
  /\ now = 1 + Len(conversation_history) + Len(conversation_message)
  /\ ingest = [c \in Handlers |-> IngestIdle]
  /\ ingestCalls = 0
  /\ search = SearchIdle
  /\ searchCalls = 0
  /\ deletes = 0
  /\ cw = WindowIdle

EmptyDb == [history |-> <<>>, messages |-> <<>>]

FixtureDb == [history |-> FixtureHistory, messages |-> FixtureMessages]

(* Concurrent store requests on a database that starts empty *)

InitStore == InitWith({EmptyDb})

NextStore ==
  \/ \E c \in Handlers : IngestBegin(c)
  \/ \E c \in Handlers : IngestEmbed(c)
  \/ \E c \in Handlers : IngestInsert(c)
  \/ \E c \in Handlers : IngestReturn(c)

SpecStore == InitStore /\ [][NextStore]_vars

\* the fixture conversation, and next to it what a store request for "r2"
\* with the messages Ma, Mb, Ma and the payload P1 leaves behind
MixedDb ==
  [history |-> Append(FixtureHistory,
                      ConversationRow(2, "r2", Null, "t1", "s1", "m1", 7)),
   messages |-> FixtureMessages \o
      <<MessageRow(7, 2, Ma.role, Ma.content, 8, Embed(ReplaceNewlines(Ma.content))),
        MessageRow(8, 2, Mb.role, Mb.content, 9, Embed(ReplaceNewlines(Mb.content))),
        MessageRow(9, 2, Ma.role, Ma.content, 10, Embed(ReplaceNewlines(Ma.content)))>>]

\* what two concurrent store requests for "r1" leave behind, the first with the
\* messages Ma, Mb and the payload P2, the second with the message Ma and the
\* payload P3: the last two inserts happen at the same time of the clock
TiedDb ==
  [history |-> <<ConversationRow(1, "r1", Null, "t3", "s2", "m2", 1)>>,
   messages |->
      <<MessageRow(1, 1, Ma.role, Ma.content, 2, Embed(ReplaceNewlines(Ma.content))),
        MessageRow(2, 1, Mb.role, Mb.content, 4, Embed(ReplaceNewlines(Mb.content))),
        MessageRow(3, 1, Ma.role, Ma.content, 4, Embed(ReplaceNewlines(Ma.content)))>>]

Seeds == {EmptyDb, FixtureDb, MixedDb, TiedDb}

(* Search requests, next to the history view, on a database that starts empty
   or with stored conversations *)

Init == InitWith(Seeds)

Next ==
  \/ SearchBegin
  \/ SearchScope
  \/ SearchRpc
  \/ SearchUser
  \/ SearchConversation
  \/ SearchContext
  \/ SearchReturn
  \/ Delete

Spec == Init /\ [][Next]_vars

(* The context window on its own: the lines of the enrichment loop between the
   fetch of the messages and the push of the enriched match *)

\* n messages in ascending order; the message at position p (from 1) has id 10 * p
WindowMessages(n) ==
  [p \in 1..n |-> [id |-> 10 * p, role |-> "user", content |-> <<"a">>,
                   created_at |-> p]]

\* a message sequence and the id of a message in it, or of none (id 5)
WindowPick ==
  /\ cw.pc = "idle"
  /\ \E n \in 0..MaxWindowLen : \E id \in {10 * p : p \in 1..n} \cup {5} :
       cw' = [cw EXCEPT !.pc = "picked", !.contextMessages = WindowMessages(n),
                        !.id = id]
  /\ UNCHANGED <<dbvars, conversation_id_unique, ingest, ingestCalls, search,
                 searchCalls, deletes>>

WindowBuild ==
  /\ cw.pc = "picked"
  /\ cw' = [cw EXCEPT !.pc = "built",
                      !.context = BuildContext(cw.contextMessages, cw.id)]
  /\ UNCHANGED <<dbvars, conversation_id_unique, ingest, ingestCalls, search,
                 searchCalls, deletes>>

InitWindow == InitWith({EmptyDb})

NextWindow == WindowPick \/ WindowBuild

SpecWindow == InitWindow /\ [][NextWindow]_vars

----------------------------------------------------------------------------
(* Properties of the search *)

\* the search request has been answered with success
Answered == search.pc = "done" /\ search.response.status = 200

\* the matches of a successful response
Returned == search.response.matches

Similarities(matches) == [i \in 1..Len(matches) |-> matches[i].similarity]

MatchIds(matches) == [i \in 1..Len(matches) |-> matches[i].id]

\* C1: a search returns only messages whose similarity to the query is strictly
\* greater than the threshold, never one at the threshold or below it; on the
\* five fixture messages at 0.92, 0.81, 0.70, 0.65 and 0.40 with threshold 0.7
\* exactly the two at 0.92 and 0.81 are returned.
C1_StrictlyAboveThreshold ==
  Answered =>
    /\ \A i \in 1..Len(Returned) :
         /\ Returned[i].similarity > MatchThreshold(search)
         /\ \A row \in Range(conversation_message) :
              row.id = Returned[i].id =>
                Similarity(row.embedding, search.embedding) > MatchThreshold(search)
    /\ (search.req.body = Q /\ conversation_message = FixtureMessages /\ deletes = 0) =>
         Similarities(Returned) = <<92, 81>>

\* C1 witness: a search with threshold 0.7 has returned two messages while a
\* stored message whose similarity is exactly 0.7 was left out
C1_Witness ==
  /\ Answered
  /\ MatchThreshold(search) = 70
  /\ Len(Returned) = 2
  /\ \E row \in Range(conversation_message) :
       /\ row.embedding # NullVector
       /\ Similarity(row.embedding, search.embedding) = 70
       /\ row.id \notin Range(MatchIds(Returned))

\* C3: in every search result similarity never increases from first to last, and
\* two returned messages of equal similarity come in ascending order of creation
\* time.
C3_OrderedWithTieBreak ==
  Answered =>
    \A i, j \in 1..Len(Returned) :
      i < j =>
        /\ Returned[i].similarity >= Returned[j].similarity
        /\ Returned[i].similarity = Returned[j].similarity =>
             Returned[i].created_at <= Returned[j].created_at

\* the rows of conversation_message that a search may return
Candidates(rec) ==
  {row \in Range(conversation_message) :
     /\ row.embedding # NullVector
     /\ Similarity(row.embedding, rec.embedding) > MatchThreshold(rec)
     /\ (rec.filterConversationId # NoRow =>
           row.conversation_id = rec.filterConversationId)}

\* the ranking query has just answered without an error
Ranked == search.pc = "rpc" /\ search'.pc # "rpc" /\ search'.thrown = ""

\* C4: the ranking never returns more than matchCount entries, and what it
\* returns is the first min(matchCount, number of qualifying messages) entries
\* of the qualifying messages in similarity-descending order: the limit is
\* applied after the filter and the ordering.
C4_LimitAfterFilterAndOrder ==
  /\ [](Answered => Len(Returned) <= Max(0, MatchCount(search)))
  /\ [][Ranked =>
          LET ranked == search'.matchingMessages
              ids == Range(MatchIds(ranked))
          IN /\ Len(ranked) <= MatchCount(search)
             /\ Len(ranked) = Min(MatchCount(search), Cardinality(Candidates(search)))
             /\ Cardinality(ids) = Len(ranked)
             /\ ids \subseteq {row.id : row \in Candidates(search)}
             /\ \A i, j \in 1..Len(ranked) :
                  i < j => ranked[i].similarity >= ranked[j].similarity
             /\ \A row \in Candidates(search) :
                  row.id \notin ids =>
                    \A i \in 1..Len(ranked) :
                      ranked[i].similarity >= Similarity(row.embedding, search.embedding)
       ]_vars

\* C4 witness: a search with matchCount 1 has returned one message while two
\* stored messages qualify
C4_Witness ==
  /\ Answered
  /\ MatchCount(search) = 1
  /\ Len(Returned) = 1
  /\ Cardinality(Candidates(search)) >= 2

\* C6: when the matched message is not among the messages fetched for its
\* conversation, the match is still pushed, with its conversation fields and an
\* empty context, nothing is thrown, and a request that has entered the
\* enrichment ends in success.
C6_UnknownMatchKeptWithoutContext ==
  /\ [](search.pc = "done" /\ search.k > 0 => Answered)
  /\ [][(/\ search.pc = "context"
         /\ search'.pc # "context"
         /\ search'.dropped = search.dropped
         /\ \A row \in Range(conversation_message) :
              row.conversation_id = search.filteredMatches[search.k].conversation_id
                => row.id # search.filteredMatches[search.k].id)
        => /\ search'.thrown = ""
           /\ search'.enrichedMatches =
                Append(search.enrichedMatches,
                       search.filteredMatches[search.k]
                         @@ [conversation |-> search.conversationData,
                             context |-> <<>>])
           /\ search'.pc = "done" => search'.response = Success(search'.enrichedMatches)
       ]_vars

\* C6 witness: a successful response carries a match whose context is empty
C6_Witness ==
  /\ Answered
  /\ \E i \in 1..Len(Returned) :
       Has(Returned[i], "context") /\ Returned[i].context = <<>>

\* a request that carries a conversationId
Scoped == Has(search.req, "body") /\ ~FalsyStr(ConversationId(search))

ValidParameters(rec) ==
  /\ MatchThreshold(rec) >= 0
  /\ MatchThreshold(rec) <= 100
  /\ MatchCount(rec) > 0

\* C8: a search whose threshold is outside [0, 1] or whose matchCount is 0 or
\* less is rejected: the ranking query is not run for it and it gets no match
\* list.
C8_InvalidParameterRejected ==
  (/\ search.pc # "idle"
   /\ Has(search.req, "body")
   /\ ~FalsyText(Field(search.req.body, "query", <<>>))
   /\ ~ValidParameters(search))
  => /\ search.pc \notin {"user", "conversation", "context"}
     /\ ~Answered
     /\ search.storageRequests <= (IF Scoped THEN 1 ELSE 0)

\* C10: when the fetch of the conversation fails for a match, only that match is
\* left out: nothing is thrown, the loop goes on with the next match, and the
\* request ends in success with every match that was not dropped, in order.
C10_BrokenMatchDropped ==
  /\ []((search.pc = "done" /\ search.k > 0) =>
          /\ Answered
          /\ MatchIds(Returned) =
               SelectSeq(MatchIds(search.filteredMatches),
                         LAMBDA id : \A d \in Range(search.dropped) : d.id # id))
  /\ [][(search.pc = "conversation" /\ Len(search'.dropped) > Len(search.dropped))
        => /\ search'.thrown = ""
           /\ search'.enrichedMatches = search.enrichedMatches
           /\ search'.k = search.k + 1
           /\ search'.pc \in {"conversation", "done"}
       ]_vars

\* C10 witness: a successful response with matches, after the fetch of the
\* conversation has failed for another match
C10_Witness ==
  /\ Answered
  /\ Len(Returned) >= 1
  /\ \E d \in Range(search.dropped) : d.fetch = "conversation"

\* C11: the matches of an enriched response are the matches of the ranking query
\* that were not left out, in the order the ranking query gave them (similarity
\* never increases); the loop only ever appends a match behind the ones it has
\* already enriched.
C11_EnrichmentPreservesOrder ==
  /\ []((Answered /\ IncludeContext(search)) =>
          /\ MatchIds(Returned) =
               SelectSeq(MatchIds(search.matchingMessages),
                         LAMBDA id : id \in Range(MatchIds(Returned)))
          /\ \A i, j \in 1..Len(Returned) :
               i < j => Returned[i].similarity >= Returned[j].similarity)
  /\ [][(/\ search.pc \in {"conversation", "context"}
         /\ search'.enrichedMatches # search.enrichedMatches)
        => /\ Len(search'.enrichedMatches) = Len(search.enrichedMatches) + 1
           /\ SubSeq(search'.enrichedMatches, 1, Len(search.enrichedMatches))
                = search.enrichedMatches
           /\ search'.enrichedMatches[Len(search'.enrichedMatches)].id
                = search.filteredMatches[search.k].id
       ]_vars

\* C11 witness: an enriched response with two matches of different similarity,
\* after another match was left out
C11_Witness ==
  /\ Answered
  /\ IncludeContext(search)
  /\ Len(Returned) >= 2
  /\ Returned[1].similarity > Returned[2].similarity
  /\ Len(search.dropped) >= 1

\* C12: a request whose includeContext is false (sent so, or left out) never
\* enters the enrichment: it sends no fetch of a conversation's messages, its
\* only storage requests are the scope lookup, the ranking query and the lookup
\* of the user's conversations, and no match of its response carries context
\* messages.
C12_NoContextNoFetch ==
  (search.pc # "idle" /\ Has(search.req, "body") /\ ~IncludeContext(search)) =>
    /\ search.messageFetches = 0
    /\ search.pc \notin {"conversation", "context"}
    /\ search.storageRequests <=
         1 + (IF Scoped THEN 1 ELSE 0) + (IF FalsyStr(UserId(search)) THEN 0 ELSE 1)
    /\ Answered =>
         /\ Returned = search.filteredMatches
         /\ \A i \in 1..Len(Returned) : Field(Returned[i], "context", <<>>) = <<>>

\* C12 witness: a request sent with includeContext false has returned matches
\* of a conversation that has other messages around them
C12_Witness ==
  /\ Answered
  /\ Has(search.req.body, "includeContext")
  /\ ~IncludeContext(search)
  /\ Len(Returned) >= 2
  /\ search.messageFetches = 0

\* C15: the ranking query returns only rows whose embedding is not NULL, and so
\* does the response, at every threshold, with or without a scope, at every
\* limit.
C15_NoNullEmbeddingReturned ==
  /\ [](Answered =>
          \A i \in 1..Len(Returned) :
            \A row \in Range(conversation_message) :
              row.id = Returned[i].id => row.embedding # NullVector)
  /\ [][Ranked =>
          \A i \in 1..Len(search'.matchingMessages) :
            \E row \in Range(conversation_message) :
              /\ row.id = search'.matchingMessages[i].id
              /\ row.embedding # NullVector
       ]_vars

\* C15 witness: a search below every similarity, with a limit above the number
\* of stored messages, has returned every message but the one stored without an
\* embedding
C15_Witness ==
  /\ Answered
  /\ MatchThreshold(search) < 0
  /\ Len(Returned) < MatchCount(search)
  /\ Len(Returned) = Len(conversation_message) - 1
  /\ \E row \in Range(conversation_message) :
       /\ row.embedding = NullVector
       /\ row.id \notin Range(MatchIds(Returned))

\* the stored messages with an embedding whose similarity to the query is above
\* the threshold of the request
AboveThreshold(rec) ==
  {row \in Range(conversation_message) :
     /\ row.embedding # NullVector
     /\ Similarity(row.embedding, rec.embedding) > MatchThreshold(rec)}

\* C16: the scope lookup hands the ranking query the id of a conversation whose
\* conversation_id is the one of the request; the ranking query of a scoped
\* request returns messages of that conversation only, and all of its messages
\* above the threshold unless the limit cuts them; the ranking query of a
\* request without scope draws from the messages of all conversations; every
\* match of a scoped response belongs to the conversation of the scope.
C16_ScopeFilter ==
  /\ []((Answered /\ Scoped) =>
          \A i \in 1..Len(Returned) :
            Returned[i].conversation_id = search.filterConversationId)
  /\ [][(search.pc = "scope" /\ search'.pc = "rpc") =>
          \E i \in RowsWhere(conversation_history, "conversation_id",
                              ConversationId(search)) :
            search'.filterConversationId = conversation_history[i].id
       ]_vars
  /\ [][Ranked =>
          LET ranked == search'.matchingMessages
              inScope == IF Scoped
                         THEN {row \in AboveThreshold(search) :
                                 row.conversation_id = search.filterConversationId}
                         ELSE AboveThreshold(search)
          IN /\ Range(MatchIds(ranked)) \subseteq {row.id : row \in inScope}
             /\ Len(ranked) = Min(MatchCount(search), Cardinality(inScope))
             /\ \A row \in inScope :
                  row.id \notin Range(MatchIds(ranked)) =>
                    /\ Len(ranked) = MatchCount(search)
                    /\ \A i \in 1..Len(ranked) :
                         ranked[i].similarity >=
                           Similarity(row.embedding, search.embedding)
       ]_vars

\* C16 witness: a scoped search has returned every message of its conversation
\* above the threshold, while messages of another conversation are above the
\* threshold too
C16_Witness ==
  /\ Answered
  /\ Scoped
  /\ Len(Returned) >= 2
  /\ Len(Returned) < MatchCount(search)
  /\ \E row \in AboveThreshold(search) :
       row.conversation_id # search.filterConversationId

\* C16 witness without scope: one response carries messages of two
\* conversations
C16_WitnessUnscoped ==
  /\ Answered
  /\ ~Scoped
  /\ \E i, j \in 1..Len(Returned) :
       Returned[i].conversation_id # Returned[j].conversation_id

\* C18: no step of a search request, whatever its outcome, changes the stored
\* conversations or messages or the sequences of their ids; as long as nothing
\* was deleted from the history view, storage is what it was before the first
\* request.
C18_SearchIsPureRead ==
  /\ [](deletes = 0 =>
          \E seed \in Seeds :
            /\ conversation_history = seed.history
            /\ conversation_message = seed.messages)
  /\ [][search' # search =>
          /\ conversation_history' = conversation_history
          /\ conversation_message' = conversation_message
          /\ nextConversationId' = nextConversationId
          /\ nextMessageId' = nextMessageId
       ]_vars

\* C18 witness: a search has been answered with enriched matches, and storage
\* still holds the two conversations it started with
C18_Witness ==
  /\ Answered
  /\ IncludeContext(search)
  /\ Len(Returned) >= 1
  /\ search.messageFetches >= 1
  /\ deletes = 0
  /\ conversation_history = MixedDb.history
  /\ conversation_message = MixedDb.messages

Between(a, b) ==
  {x \in Range(conversation_message) :
     /\ x.conversation_id = a.conversation_id
     /\ x.id \notin {a.id, b.id}
     /\ x.created_at >= Min(a.created_at, b.created_at)
     /\ x.created_at <= Max(a.created_at, b.created_at)}

\* C22: no match of a response is a message stored without an embedding; but
\* when the context of a match is built, every message without an embedding
\* that stands at most 2 positions from the match in its conversation is in
\* that context.
C22_NullEmbeddingInContext ==
  /\ [](Answered =>
          \A row \in Range(conversation_message) :
            row.embedding = NullVector => row.id \notin Range(MatchIds(Returned)))
  /\ [][(/\ search.pc = "context"
         /\ Len(search'.enrichedMatches) > Len(search.enrichedMatches))
        => LET match == search.filteredMatches[search.k]
               context == search'.enrichedMatches[Len(search'.enrichedMatches)].context
           IN \A m, row \in Range(conversation_message) :
                (/\ m.id = match.id
                 /\ row.conversation_id = m.conversation_id
                 /\ row.embedding = NullVector
                 /\ Cardinality(Between(m, row)) <= 1)
                => \E i \in 1..Len(context) : context[i].id = row.id
       ]_vars

\* C22 witness: a response in which a message stored without an embedding is
\* in the context of two matches and is not a match itself
C22_Witness ==
  /\ Answered
  /\ IncludeContext(search)
  /\ \E row \in Range(conversation_message) :
       /\ row.embedding = NullVector
       /\ row.id \notin Range(MatchIds(Returned))
       /\ \E i, j \in 1..Len(Returned) :
            /\ i # j
            /\ row.id \in Range(MatchIds(Returned[i].context))
            /\ row.id \in Range(MatchIds(Returned[j].context))

\* C24: the context of every match of a response is in ascending order of
\* created_at, and messages of equal created_at are in ascending order of id.
C24_ContextOrderedWithIdTieBreak ==
  (Answered /\ IncludeContext(search)) =>
    \A k \in 1..Len(Returned) :
      \A i, j \in 1..Len(Returned[k].context) :
        i < j =>
          LET a == Returned[k].context[i]
              b == Returned[k].context[j]
          IN \/ a.created_at < b.created_at
             \/ (a.created_at = b.created_at /\ a.id < b.id)

----------------------------------------------------------------------------
(* Properties of the context window *)

\* C5: for a match found at position i (from 0) among n messages in ascending
\* order, the context is exactly the messages at positions max(0, i - 2) to
\* min(n - 1, i + 2), in the same order; with n = 10, i = 0 gives positions
\* 0..2, i = 9 gives 7..9 and i = 5 gives 3..7.
C5_ContextWindowRange ==
  (cw.pc = "built" /\ cw.id # 5) =>
    LET n == Len(cw.contextMessages)
        i == (cw.id \div 10) - 1
        lo == Max(0, i - 2)
        hi == Min(n - 1, i + 2)
        ids == [j \in 1..Len(cw.context) |-> cw.context[j].id]
    IN /\ Len(cw.context) = hi - lo + 1
       /\ \A j \in 1..Len(cw.context) : cw.context[j] = cw.contextMessages[lo + j]
       /\ (n = 10 /\ i = 0) => ids = <<10, 20, 30>>
       /\ (n = 10 /\ i = 9) => ids = <<80, 90, 100>>
       /\ (n = 10 /\ i = 5) => ids = <<40, 50, 60, 70, 80>>

\* C5 witness: the window of the first of ten messages has been built and has
\* three messages
C5_Witness ==
  /\ cw.pc = "built"
  /\ Len(cw.contextMessages) = 10
  /\ cw.id = 10
  /\ Len(cw.context) = 3

\* C23: the context of a match that is among the messages has 1 to 5
\* messages, they are consecutive messages of the sequence, and the match is
\* one of them, exactly once, with its (up to 2) predecessors before it and
\* its (up to 2) successors after it.
C23_WindowContainsMatch ==
  (cw.pc = "built" /\ \E p \in 1..Len(cw.contextMessages) :
                        cw.contextMessages[p].id = cw.id) =>
    LET n == Len(cw.contextMessages)
        len == Len(cw.context)
        at == {j \in 1..len : cw.context[j].id = cw.id}
        p == CHOOSE q \in 1..n : cw.contextMessages[q].id = cw.id
    IN /\ len >= 1
       /\ len <= 5
       /\ Cardinality(at) = 1
       /\ \E s \in 0..n : cw.context = SubSeq(cw.contextMessages, s + 1, s + len)
       /\ \A j \in at :
            /\ j - 1 = Min(2, p - 1)
            /\ len - j = Min(2, n - p)
            /\ \A d \in 1..len : cw.context[d] = cw.contextMessages[p + d - j]

\* C23 witness: the context of the only message of a conversation is that
\* message
C23_Witness ==
  /\ cw.pc = "built"
  /\ Len(cw.contextMessages) = 1
  /\ cw.id = 10
  /\ cw.context = cw.contextMessages

----------------------------------------------------------------------------
(* Properties of the store *)

\* the handler has sent the conversation upsert
Upserting(rec) ==
  /\ rec.req.method = "POST"
  /\ Has(rec.req, "body")
  /\ ~FalsyStr(Str(rec.req.body, "conversationId"))
  /\ Len(rec.req.body.messages) > 0

\* C2: a store request that fails leaves none of its messages in storage, and
\* reports the failure (3 valid messages, the embedding request of the 2nd
\* fails: 0 messages of the request are stored).
C2_AllOrNothing ==
  \A c \in Handlers :
    (ingest[c].pc = "done" /\ ingest[c].thrown # "") =>
      /\ ingest[c].response.status \in {400, 500}
      /\ \A id \in Range(ingest[c].results) : id \notin Ids(conversation_message)

\* C9: no two conversation rows ever share a conversation_id, and a store
\* request whose upsert meets no collaborator fault leaves exactly one row for
\* its conversationId, carrying the title, summary and metadata it sent.
C9_OneRowWithLatestTitle ==
  /\ [](\A i, j \in 1..Len(conversation_history) :
          i # j => conversation_history[i].conversation_id
                     # conversation_history[j].conversation_id)
  /\ [][\A c \in Handlers :
          (/\ ingest[c].pc = "idle"
           /\ ingest'[c].pc # "idle"
           /\ Upserting(ingest'[c])
           /\ ingest'[c].faults = 0)
          => LET body == ingest'[c].req.body
                 hit == RowsWhere(conversation_history', "conversation_id",
                                  body.conversationId)
             IN /\ Cardinality(hit) = 1
                /\ \A i \in hit :
                     \A f \in {"title", "summary", "metadata"} :
                        Has(body, f) => conversation_history'[i][f] = body[f]
       ]_vars

\* the positions of the messages that have content and a role
Storable(messages) ==
  {i \in 1..Len(messages) : messages[i].content # <<>> /\ Has(messages[i], "role")}

\* the positions of a set, in ascending order
Ascending(positions, n) == SelectSeq([i \in 1..n |-> i], LAMBDA i : i \in positions)

\* C13: a store request never sends an embedding request or an insert for a
\* message with empty content or without a role; when it ends in success, every
\* other message has been embedded and stored with its role and content, in
\* order, and the count in the response is the number of those messages.
C13_SkippedNotEmbeddedNorStored ==
  \A c \in Handlers :
    (ingest[c].pc # "idle" /\ Upserting(ingest[c])) =>
      LET rec == ingest[c]
          messages == rec.req.body.messages
          kept == Storable(messages)
      IN /\ Range(rec.embedRequests) \subseteq kept
         /\ Range(rec.insertRequests) \subseteq kept
         /\ Len(rec.results) <= Cardinality(kept)
         /\ (rec.pc = "done" /\ rec.response.status = 200) =>
              /\ rec.response.messages = Cardinality(kept)
              /\ Len(rec.results) = Cardinality(kept)
              /\ rec.embedRequests = Ascending(kept, Len(messages))
              /\ rec.insertRequests = Ascending(kept, Len(messages))
              /\ \A j \in 1..Len(rec.results) :
                   \E row \in Range(conversation_message) :
                     /\ row.id = rec.results[j]
                     /\ row.conversation_id = rec.conversation
                     /\ row.role = messages[rec.insertRequests[j]].role
                     /\ row.content = messages[rec.insertRequests[j]].content

\* C13 witness: a request with a message without content, a storable message
\* and a message without a role has ended in success with a count of 1
C13_Witness ==
  \E c \in Handlers :
    /\ ingest[c].pc = "done"
    /\ ingest[c].response.status = 200
    /\ ingest[c].req.body.messages = <<Mempty, Mb, Mnorole>>
    /\ ingest[c].response.messages = 1
    /\ ingest[c].embedRequests = <<2>>

\* C14: a store request asks for the embedding of its messages in input order,
\* and asks for the next one only after the insert of the one before; once an
\* embedding request or an insert has failed the request is over: the failing
\* message is the last one it asked anything for, and it sends nothing more and
\* stores nothing more.
C14_SequentialAbortOnFirstFailure ==
  /\ [](\A c \in Handlers :
          (ingest[c].pc # "idle" /\ Upserting(ingest[c])) =>
            LET rec == ingest[c]
                asked == rec.embedRequests
                sent == rec.insertRequests
            IN /\ \A i, j \in 1..Len(asked) : i < j => asked[i] < asked[j]
               /\ Len(sent) <= Len(asked)
               /\ Len(asked) <= Len(sent) + 1
               /\ sent = SubSeq(asked, 1, Len(sent))
               /\ rec.pc = "insert" => Len(asked) = Len(sent) + 1
               /\ rec.pc = "embed" => Len(asked) = Len(sent)
               /\ rec.faults > 0 =>
                    /\ rec.pc = "done"
                    /\ rec.thrown # ""
                    /\ rec.response.status # 200
                    /\ asked # <<>> =>
                         /\ asked[Len(asked)] = rec.idx
                         /\ Len(rec.results) <
                              Cardinality(Storable(rec.req.body.messages)))
  /\ [][\A c \in Handlers :
          (ingest[c].pc = "done" /\ ingest'[c] # ingest[c]) =>
            /\ ingest'[c] = IngestIdle
            /\ conversation_message' = conversation_message
       ]_vars

\* C14 witness: of three storable messages the first was stored and the
\* embedding of the second failed; nothing was asked for the third
C14_Witness ==
  \E c \in Handlers :
    /\ ingest[c].pc = "done"
    /\ ingest[c].faults > 0
    /\ ingest[c].req.body.messages = <<Ma, Mb, Ma>>
    /\ ingest[c].embedRequests = <<1, 2>>
    /\ ingest[c].insertRequests = <<1>>

\* the conversation upsert of the request was answered without an outage of
\* the storage collaborator
UpsertAnswered(rec) == Upserting(rec) /\ ~(rec.faults = 1 /\ rec.idx = 0)

\* C17: when two store requests for the same conversationId have both had
\* their upsert answered, in whatever order their steps interleave, exactly one
\* conversation row carries that conversationId, both requests work with that
\* row, and every message either of them has stored references it.
C17_ConcurrentUpsertsSerialized ==
  \A c, d \in Handlers :
    (/\ c # d
     /\ ingest[c].pc # "idle"
     /\ ingest[d].pc # "idle"
     /\ UpsertAnswered(ingest[c])
     /\ UpsertAnswered(ingest[d])
     /\ ingest[c].req.body.conversationId = ingest[d].req.body.conversationId)
    => LET hit == RowsWhere(conversation_history, "conversation_id",
                            ingest[c].req.body.conversationId)
       IN /\ Cardinality(hit) = 1
          /\ \A i \in hit :
               /\ ingest[c].conversation = conversation_history[i].id
               /\ ingest[d].conversation = conversation_history[i].id
               /\ \A row \in Range(conversation_message) :
                    row.id \in Range(ingest[c].results) \cup Range(ingest[d].results)
                      => row.conversation_id = conversation_history[i].id

\* the same with the unique key in place
C17_WithUniqueKey == conversation_id_unique => C17_ConcurrentUpsertsSerialized

\* C19: a store request that has met a failure of the embedding provider or of
\* storage (an outage, a bad answer, a rejected statement) is over, and its
\* response is the status 500 with the generic message and nothing else: not a
\* success, not a 4xx, not the message of the error.
C19_FailureIsGenericError ==
  /\ [](\A c \in Handlers :
          (/\ ingest[c].pc # "idle"
           /\ Upserting(ingest[c])
           /\ (ingest[c].faults > 0 \/ ingest[c].thrown # ""))
          => /\ ingest[c].pc = "done"
             /\ ingest[c].thrown \notin {"", "UserError"}
             /\ ingest[c].response = [status |-> 500, error |-> GenericError])
  /\ [][\A c \in Handlers :
          (ingest[c].pc \in {"embed", "insert"} /\ ingest'[c].faults > ingest[c].faults)
          => /\ ingest'[c].response.status = 500
             /\ ingest'[c].response.error = GenericError
             /\ DOMAIN ingest'[c].response = {"status", "error"}
       ]_vars

\* C19 witness: one request has ended after a failed embedding request and
\* another after a failed insert
C19_Witness ==
  \E c, d \in Handlers :
    /\ ingest[c].pc = "done"
    /\ ingest[c].thrown = "ApplicationError"
    /\ Len(ingest[c].embedRequests) = Len(ingest[c].insertRequests) + 1
    /\ ingest[d].pc = "done"
    /\ ingest[d].thrown = "PostgrestError"
    /\ ingest[d].faults = 1
    /\ Len(ingest[d].insertRequests) >= 1

\* C21: the count in the response of a successful store request is the number
\* of message rows the request has inserted (all of them stored, each once),
\* and that is the number of its input messages that have content and a role.
C21_StoredCount ==
  \A c \in Handlers :
    (ingest[c].pc = "done" /\ ingest[c].response.status = 200) =>
      LET rec == ingest[c]
          inserted == {row \in Range(conversation_message) :
                         row.id \in Range(rec.results)}
      IN /\ rec.response.success
         /\ rec.response.messages = Cardinality(inserted)
         /\ Cardinality(inserted) = Len(rec.results)
         /\ rec.response.messages = Cardinality(Storable(rec.req.body.messages))
         /\ \A row \in inserted : row.conversation_id = rec.conversation

\* C21 witness: a request with three storable messages has ended in success
\* with a count of 3, next to the rows of another request
C21_Witness ==
  \E c \in Handlers :
    /\ ingest[c].pc = "done"
    /\ ingest[c].response.status = 200
    /\ Len(ingest[c].req.body.messages) = 3
    /\ ingest[c].response.messages = 3
    /\ Len(conversation_message) > 3

\* the stored conversations of TiedDb are what store requests can leave behind
TiedDbStored ==
  /\ conversation_history = TiedDb.history
  /\ conversation_message = TiedDb.messages

\* the text t with a space in the place of every newline
Normalised(t, content) ==
  /\ Len(t) = Len(content)
  /\ \A i \in 1..Len(t) :
       /\ t[i] # "\n"
       /\ content[i] # "\n" => t[i] = content[i]
       /\ content[i] = "\n" => t[i] = " "

\* C25: the input of every embedding request is the content of the message
\* with a space in the place of every newline; and when a request inserts a
\* message, its last embedding request was for that message, came before the
\* insert, and the vector stored is the one of that normalised text.
C25_NormalisedBeforePersist ==
  /\ [](\A c \in Handlers :
          (ingest[c].pc # "idle" /\ ingest[c].embedRequests # <<>>) =>
            LET rec == ingest[c]
                last == rec.embedRequests[Len(rec.embedRequests)]
            IN Normalised(rec.input, rec.req.body.messages[last].content))
  /\ [][\A c \in Handlers :
          Len(ingest'[c].insertRequests) > Len(ingest[c].insertRequests) =>
            LET rec == ingest[c]
                message == rec.req.body.messages[rec.idx]
            IN /\ Len(rec.embedRequests) = Len(rec.insertRequests) + 1
               /\ rec.embedRequests[Len(rec.embedRequests)] = rec.idx
               /\ Normalised(rec.input, message.content)
               /\ rec.embedding = Embed(rec.input)
               /\ Len(conversation_message') > Len(conversation_message) =>
                    LET row == conversation_message'[Len(conversation_message')]
                    IN /\ row.embedding = Embed(rec.input)
                       /\ row.content = message.content
       ]_vars

\* C25 witness: a message whose content has a newline is stored, and the text
\* sent for it had a space there
C25_Witness ==
  \E c \in Handlers :
    /\ ingest[c].input = <<"b", " ", "b">>
    /\ \E row \in Range(conversation_message) :
         /\ row.id \in Range(ingest[c].results)
         /\ row.content = <<"b", "\n", "b">>
         /\ row.embedding = Embed(ingest[c].input)

\* the position of the row with the given id in conversation_message
RowPosition(id) == CHOOSE p \in 1..Len(conversation_message) : conversation_message[p].id = id

\* C26: when a store request has failed at message k, the rows it leaves in
\* conversation_message are the messages before k that have content and a
\* role, one row each, in input order; the failing step removes no row.
C26_PrefixPersistedAfterFailure ==
  /\ [](\A c \in Handlers :
          (/\ ingest[c].pc = "done"
           /\ Upserting(ingest[c])
           /\ ingest[c].thrown # ""
           /\ ingest[c].embedRequests # <<>>)
          => LET rec == ingest[c]
                 messages == rec.req.body.messages
                 before == Ascending({i \in Storable(messages) : i < rec.idx},
                                     Len(messages))
             IN /\ rec.idx \in Storable(messages)
                /\ Len(rec.results) = Len(before)
                /\ Range(rec.results) \subseteq Ids(conversation_message)
                /\ \A j \in 1..Len(rec.results) :
                     LET row == conversation_message[RowPosition(rec.results[j])]
                     IN /\ row.conversation_id = rec.conversation
                        /\ row.role = messages[before[j]].role
                        /\ row.content = messages[before[j]].content
                /\ \A i, j \in 1..Len(rec.results) :
                     i < j => RowPosition(rec.results[i]) < RowPosition(rec.results[j]))
  /\ [][\A c \in Handlers :
          (ingest[c].thrown = "" /\ ingest'[c].thrown # "") =>
            conversation_message' = conversation_message
       ]_vars

\* C26 witness: the insert of the third of three messages has failed and the
\* rows of the first two are stored
C26_Witness ==
  \E c \in Handlers :
    /\ ingest[c].pc = "done"
    /\ ingest[c].thrown = "PostgrestError"
    /\ ingest[c].insertRequests = <<1, 2, 3>>
    /\ Len(ingest[c].results) = 2
    /\ Range(ingest[c].results) \subseteq Ids(conversation_message)

\* the step on which the upsert of request c is answered without an error
Upserted(c) == ingest[c].pc = "idle" /\ ingest'[c].pc # "idle" /\ ingest'[c].idx >= 1

\* C27: when the upsert of a store request is answered without an error, the
\* conversation row of its conversationId exists with the title, summary and
\* metadata the request sent, before the request has asked anything for a
\* message; no later step of any store request removes a conversation row, and
\* the later steps of the request itself leave conversation_history alone, so
\* the row is still there when the request has failed on a message or has
\* skipped all of them (and then answers with success and a count of 0).
C27_UpsertCommittedFirst ==
  /\ [][\A c \in Handlers :
          Upserted(c) =>
            LET body == ingest'[c].req.body
            IN /\ ingest'[c].embedRequests = <<>>
               /\ ingest'[c].insertRequests = <<>>
               /\ conversation_message' = conversation_message
               /\ \E i \in 1..Len(conversation_history') :
                    /\ conversation_history'[i].id = ingest'[c].conversation
                    /\ conversation_history'[i].conversation_id = body.conversationId
                    /\ \A f \in {"title", "summary", "metadata"} :
                         Has(body, f) => conversation_history'[i][f] = body[f]
       ]_vars
  /\ [][/\ Len(conversation_history') >= Len(conversation_history)
        /\ \A i \in 1..Len(conversation_history) :
             /\ conversation_history'[i].id = conversation_history[i].id
             /\ conversation_history'[i].conversation_id
                  = conversation_history[i].conversation_id
        /\ \A c \in Handlers :
             (ingest[c].pc # "idle" /\ ingest'[c] # ingest[c]) =>
               conversation_history' = conversation_history
       ]_vars
  /\ [](\A c \in Handlers :
          (ingest[c].pc = "done" /\ ingest[c].idx >= 1) =>
            /\ \E i \in 1..Len(conversation_history) :
                 /\ conversation_history[i].id = ingest[c].conversation
                 /\ conversation_history[i].conversation_id
                      = ingest[c].req.body.conversationId
            /\ Storable(ingest[c].req.body.messages) = {} =>
                 /\ ingest[c].response.status = 200
                 /\ ingest[c].response.messages = 0
                 /\ ingest[c].embedRequests = <<>>)

\* C27 witness: one request has failed on a message and another has skipped
\* its only message and answered with a count of 0; the conversation rows of
\* both are stored, the second with the title it sent
C27_Witness ==
  \E c, d \in Handlers :
    /\ ingest[c].pc = "done"
    /\ ingest[c].thrown # ""
    /\ ingest[c].embedRequests # <<>>
    /\ ingest[d].pc = "done"
    /\ ingest[d].idx >= 1
    /\ Upserting(ingest[d])
    /\ ingest[d].req.body.messages = <<Mempty>>
    /\ ingest[d].response.status = 200
    /\ ingest[d].response.messages = 0
    /\ \E i, j \in 1..Len(conversation_history) :
         /\ conversation_history[i].id = ingest[c].conversation
         /\ conversation_history[j].id = ingest[d].conversation
         /\ conversation_history[j].title = ingest[d].req.body.title

\* the store request c has been answered with success
Stored(c) ==
  /\ ingest[c].pc = "done"
  /\ Upserting(ingest[c])
  /\ ingest[c].response.status = 200

\* C28: a step of a store request leaves every stored message row as it is and
\* in its place, and adds at most one row at the end; two successful requests
\* have inserted disjoint sets of rows, one for each of their valid messages,
\* and when they name the same conversationId there is one conversation row
\* for it, to which the rows of both are attached: k + k rows of theirs when
\* both carried the same k valid messages.
C28_AppendOnlyNotIdempotent ==
  /\ [][/\ Len(conversation_message') \in
             {Len(conversation_message), Len(conversation_message) + 1}
        /\ \A i \in 1..Len(conversation_message) :
             conversation_message'[i] = conversation_message[i]
       ]_vars
  /\ [](\A c, d \in Handlers :
          (c # d /\ Stored(c) /\ Stored(d)) =>
            LET kc == Cardinality(Storable(ingest[c].req.body.messages))
                kd == Cardinality(Storable(ingest[d].req.body.messages))
                attached == RowsWhere(conversation_message, "conversation_id",
                                      ingest[c].conversation)
                theirs == Range(ingest[c].results) \cup Range(ingest[d].results)
            IN /\ Range(ingest[c].results) \cap Range(ingest[d].results) = {}
               /\ Range(ingest[c].results) \cup Range(ingest[d].results)
                    \subseteq Ids(conversation_message)
               /\ Cardinality(Range(ingest[c].results)) = kc
               /\ ingest[c].req.body.conversationId = ingest[d].req.body.conversationId =>
                    /\ ingest[c].conversation = ingest[d].conversation
                    /\ Cardinality(RowsWhere(conversation_history, "conversation_id",
                                             ingest[c].req.body.conversationId)) = 1
                    /\ Cardinality({i \in attached :
                                      conversation_message[i].id \in theirs}) = kc + kd)

\* C28 witness: the same request with three valid messages has been stored
\* twice, and six message rows are attached to its one conversation
C28_Witness ==
  \E c, d \in Handlers :
    /\ c # d
    /\ Stored(c)
    /\ Stored(d)
    /\ ingest[c].req.body = ingest[d].req.body
    /\ Len(ingest[c].req.body.messages) = 3
    /\ Cardinality(Storable(ingest[c].req.body.messages)) = 3
    /\ ingest[c].conversation = ingest[d].conversation
    /\ Len(conversation_history) = 1
    /\ Cardinality(RowsWhere(conversation_message, "conversation_id",
                             ingest[c].conversation)) = 6

\* C29: when the fetch of the messages of a match fails, the match is left
\* out of the output, nothing is thrown and the loop goes on with the next
\* match, which is what a failed fetch of the conversation does; so an enriched
\* response holds the filtered matches less one for every failed fetch, and a
\* response without context holds every one of them (the whole ranked list when
\* no userId was sent) after no fetch at all.
C29_ContextFailureDropsMatch ==
  /\ [][\A fetch \in {"conversation", "context"} :
          (search.pc = fetch /\ search'.fetchErrors > search.fetchErrors) =>
            /\ search'.enrichedMatches = search.enrichedMatches
            /\ search'.dropped
                 = Append(search.dropped,
                          [id |-> search.filteredMatches[search.k].id,
                           fetch |-> fetch])
            /\ search'.thrown = ""
            /\ search'.k = search.k + 1
            /\ search'.pc \in {"conversation", "done"}
       ]_vars
  /\ [](Answered =>
          IF IncludeContext(search)
          THEN /\ Len(Returned) = Len(search.filteredMatches) - search.fetchErrors
               /\ \A i \in 1..Len(search.filteredMatches) :
                    (\E d \in Range(search.dropped) :
                        d.id = search.filteredMatches[i].id)
                    <=> ~(\E j \in 1..Len(Returned) :
                            Returned[j].id = search.filteredMatches[i].id)
          ELSE /\ Returned = search.filteredMatches
               /\ search.fetchErrors = 0
               /\ search.messageFetches = 0
               /\ FalsyStr(UserId(search)) => Returned = search.matchingMessages)

\* C29 witness: an enriched response that is shorter than the ranked list
\* because the fetch of the messages failed for a match, while another match
\* is returned
C29_Witness ==
  /\ Answered
  /\ IncludeContext(search)
  /\ \E d \in Range(search.dropped) : d.fetch = "context"
  /\ \A d \in Range(search.dropped) : d.fetch = "context"
  /\ search.fetchErrors = Len(search.dropped)
  /\ Len(Returned) >= 1
  /\ Len(Returned) < Len(search.matchingMessages)

\* the other half of C29: a response without context that holds the whole
\* ranked list of two or more matches
C29_WitnessNoContext ==
  /\ Answered
  /\ ~IncludeContext(search)
  /\ FalsyStr(UserId(search))
  /\ Len(search.matchingMessages) >= 2
  /\ Returned = search.matchingMessages

\* the ids of the conversations stored for the user
OwnedBy(user) ==
  {conversation_history[i].id : i \in RowsWhere(conversation_history, "user_id", user)}

\* s is t with some of its entries left out, the others in the order of t
RECURSIVE IsSublist(_, _)
IsSublist(s, t) ==
  IF s = <<>> THEN TRUE
  ELSE IF t = <<>> THEN FALSE
  ELSE IF Head(s) = Head(t) THEN IsSublist(Tail(s), Tail(t))
  ELSE IsSublist(s, Tail(t))

====
